---- MODULE Spec2Model ----
(***************************************************************************)
(* Model of the score-repair path of the TOEIC exam backend:               *)
(*   QuestionRepository.update             (question.repository.ts 209-321) *)
(*   QuestionRepository.recalculateAttemptScores            (335-464)       *)
(*   calculatePercentageScore and the conversion calls of                  *)
(*   scripts/test-scoring-comparison.ts.                                    *)
(* The tables choice, attemptanswer and attempt are the committed database *)
(* state; tx is the private state of the running recalculation             *)
(* transaction; call is the position of the recalculation call (an update  *)
(* is one transaction and one step).  Calls are serialised: one starts     *)
(* only when no other is in progress.                                       *)
(* Spec interleaves updates and recalculations; SpecUpdate runs updates     *)
(* alone with longer payloads; SpecScoring applies the scoring functions.   *)
(* Math.round((c / t) * k) is modelled in exact arithmetic (round half up). *)
(* The attempt service (startAttempt, getActiveAttempt, submitAttempt, the  *)
(* grading engine, the weak-area analyzer) is not among the sources; it is  *)
(* modelled from the specification: SpecSubmit runs two concurrent          *)
(* submissions, SpecActive starts and looks up attempts, SpecLifecycle      *)
(* follows attempts through start, submission and recalculation, and        *)
(* SpecAnalyzer applies the analyzer to every small breakdown.              *)
(* SpecUpdateTx follows one update call through the steps of its            *)
(* transaction to its outcome; SpecEdits submits an attempt and then edits  *)
(* questions and recalculates.  SpecExam runs the calls of ExamService      *)
(* (part_004) on ExamRepository (exam.repository.ts), SpecExamQuestions     *)
(* those that change the questions of an exam, and SpecAuth hands requests  *)
(* to authMiddleware (auth.middleware.ts 144-268).                          *)
(***************************************************************************)
EXTENDS Integers, Sequences, FiniteSets, TLC

\* ---------------------------------------------------------------- bounds
MaxChoiceID == 4
MaxPayload == 1
MaxUpdatePayload == 2
MaxTotal == 20
MaxAttemptID == 4
MaxTime == 5
MaxGroupTotal == 10
MaxExamID == 2
MaxExamPayload == 2
MaxTokenID == 1

\* ------------------------------------------------------------- constants
NULL == 0
FullTestTotal == 100
MaxScaled == 495
QuestionIDs == {1, 2}
AttemptIDs == {1, 2}

VARIABLES choice, nextChoiceID, attemptanswer, attempt, tx, call, scoreIn, scoreOut,
          now, sub, reply, weakIn, weakOut,
          question, upd, exams, nextExamID, examquestion, ecall, req, res

vars == <<choice, nextChoiceID, attemptanswer, attempt, tx, call, scoreIn, scoreOut,
          now, sub, reply, weakIn, weakOut,
          question, upd, exams, nextExamID, examquestion, ecall, req, res>>
dbVars == <<choice, nextChoiceID, attemptanswer, attempt, tx, call>>
scoreVars == <<scoreIn, scoreOut>>
sessionVars == <<now, sub, reply>>
weakVars == <<weakIn, weakOut>>
editVars == <<question, upd>>
apiVars == <<exams, nextExamID, examquestion, ecall, req, res>>

\* ------------------------------------------------------ pure scoring code
Min(a, b) == IF a < b THEN a ELSE b

\* Math.round(n / d) for n >= 0, d > 0: nearest integer, ties upwards
Round(n, d) == (2 * n + d) \div (2 * d)

\* variant: one table entry out of order
convertListeningScoreDip(n) ==
    IF n = 50 THEN 5 ELSE Min(MaxScaled, 5 + 5 * n + 5 * (n \div 4))

\* utils/toeic-score-conversion is not among the sources: the two tables are
\* taken from the specification (fixed, non-decreasing, floor 5 at 0 correct,
\* 495 at 100 correct, independent for the two skills)
convertListeningScore(n) == Min(MaxScaled, 5 + 5 * n + 5 * (n \div 4))

convertReadingScore(n) == 5 + 5 * n - 5 * (n \div 50)

\* test-scoring-comparison.ts: calculatePercentageScore
calculatePercentageScore(correct, total) ==
    IF total = 0 THEN 0 ELSE Round(correct * 100, total)

\* variant: a skill without questions gets the floor of the conversion tables
PracticeScoreFloorWhenEmpty(correct, total) ==
    IF total > 0 THEN Round(correct * MaxScaled, total) ELSE convertListeningScore(0)

\* variant: the ratio taken as a percentage (0-100) before it is scaled by 495
PracticeScoreFromPercent(correct, total) ==
    IF total > 0 THEN Round(correct * 100, total) * MaxScaled ELSE 0

\* recalculateAttemptScores, practice branch: Math.round(percent * 495)
PracticeScore(correct, total) ==
    IF total > 0 THEN Round(correct * MaxScaled, total) ELSE 0

\* variant: the percentage put on the 0-495 range of the skill scores
ScorePercentOnScaledRange(correct, total) ==
    Round(correct * MaxScaled, IF total = 0 THEN 1 ELSE total)

\* recalculateAttemptScores: scorePercent, with totalCount || 1
ScorePercentOf(correct, total) ==
    Round(correct * 100, IF total = 0 THEN 1 ELSE total)

\* variant: the linear formula whatever the attempt type
SkillScoresAlwaysLinear(type, lc, lt, rc, rt) ==
    [listening |-> PracticeScore(lc, lt), reading |-> PracticeScore(rc, rt)]

\* recalculateAttemptScores: the branch on attemptType
SkillScores(type, lc, lt, rc, rt) ==
    IF type = "FULL_TEST"
    THEN [listening |-> convertListeningScore(lc), reading |-> convertReadingScore(rc)]
    ELSE [listening |-> PracticeScore(lc, lt), reading |-> PracticeScore(rc, rt)]

\* ------------------------------------------------------------ the tables
\* mediaquestion.Skill of a question, reached through question.MediaQuestionID
Skill(q) == IF q = 1 THEN "LISTENING" ELSE "READING"

RowsOf(aa, a) == {r \in aa : r.AttemptID = a}

CorrectIn(rows) == Cardinality({r \in rows : r.IsCorrect})

SkillRows(aa, a, skill) == {r \in RowsOf(aa, a) : Skill(r.QuestionID) = skill}

\* variant: the WHERE clause on the question dropped
AffectedAnyQuestion(aa, q) == {r.AttemptID : r \in aa}

\* SELECT DISTINCT a.ID ... INNER JOIN attemptanswer ... WHERE aa.QuestionID = ?
Affected(aa, q) == {r.AttemptID : r \in {x \in aa : x.QuestionID = q}}

\* the three aggregate queries and the score computation for one attempt
AttemptScores(aa, a, type) ==
    LET all == RowsOf(aa, a)
        l == SkillRows(aa, a, "LISTENING")
        r == SkillRows(aa, a, "READING")
        s == SkillScores(type, CorrectIn(l), Cardinality(l), CorrectIn(r), Cardinality(r))
    IN [percent |-> ScorePercentOf(CorrectIn(all), Cardinality(all)),
        listening |-> s.listening,
        reading |-> s.reading]

\* variant: the update also clears the submission time
ApplyScoresClearSubmitted(att, s) ==
    [att EXCEPT !.ScorePercent = s.percent,
                !.ScoreListening = s.listening,
                !.ScoreReading = s.reading,
                !.SubmittedAt = NULL]

\* variant: the new percentage is averaged with the stored one
ApplyScoresSmoothed(att, s) ==
    [att EXCEPT !.ScorePercent = (att.ScorePercent + s.percent) \div 2,
                !.ScoreListening = s.listening,
                !.ScoreReading = s.reading]

\* manager.update('Attempt', attemptId, {ScorePercent, ScoreListening, ScoreReading})
ApplyScores(att, s) ==
    [att EXCEPT !.ScorePercent = s.percent,
                !.ScoreListening = s.listening,
                !.ScoreReading = s.reading]

NoTx == [todo |-> {}, writes |-> <<>>]
Idle == [op |-> "none", id |-> 0, status |-> "returned"]

AttemptType(a) == IF a = 1 THEN "FULL_TEST" ELSE "PRACTICE_BY_PART"

\* an attempt row as the grading pass leaves it
GradedAttempt(aa, a) ==
    LET s == AttemptScores(aa, a, AttemptType(a))
    IN [StudentProfileID |-> a,
        ExamID |-> 1,
        Type |-> AttemptType(a),
        StartedAt |-> a,
        SubmittedAt |-> a + 1,
        ScorePercent |-> s.percent,
        ScoreListening |-> s.listening,
        ScoreReading |-> s.reading]

InitChoice ==
    (1 :> [QuestionID |-> 1, IsCorrect |-> TRUE]) @@
    (2 :> [QuestionID |-> 1, IsCorrect |-> FALSE]) @@
    (3 :> [QuestionID |-> 2, IsCorrect |-> TRUE])

\* an answer row as grading writes it: IsCorrect copied from the choice
AnswerRow(a, q, c) ==
    [AttemptID |-> a, QuestionID |-> q, ChoiceID |-> c,
     IsCorrect |-> IF c = NULL THEN FALSE ELSE InitChoice[c].IsCorrect]

\* attempt 1 (FULL_TEST) answered question 1 with choice 1 and left question 2
\* unanswered; attempt 2 (PRACTICE_BY_PART, listening part only) answered
\* question 1 with choice 2
InitDb ==
    /\ choice = InitChoice
    /\ nextChoiceID = 4
    /\ attemptanswer = {AnswerRow(1, 1, 1), AnswerRow(1, 2, NULL), AnswerRow(2, 1, 2)}
    /\ attempt = [a \in AttemptIDs |-> GradedAttempt(attemptanswer, a)]
    /\ tx = NoTx
    /\ call = Idle

\* ---- the attempt session: start, active attempt, submit (the attempt service
\* is not among the sources; this part follows the specification)
Callers == {1, 2}
Students == {1, 2}

\* the one exam of the model: TimeExam minutes, questions 1 and 2
ExamIDs == {1}
TimeExam == 1
ExamQuestions == {1, 2}

\* section (TOEIC part 1-7) of a question
Section(q) == IF q = 1 THEN 1 ELSE 5
Sections == 1..7

\* a submitAttempt call that has not begun
NoCall == [pc |-> "idle", attempt |-> 0, open |-> FALSE, at |-> 0,
           result |-> "none", rows |-> {}, scores |-> <<>>]

NoReply == [op |-> "none", student |-> 0, attempt |-> 0]

\* the clock starts after the last submission recorded in the database
InitSession ==
    /\ now = 3
    /\ sub = [c \in Callers |-> NoCall]
    /\ reply = NoReply

\* the weak-area analyzer has not run
NoGroups == <<>>
NotAnalysed == [done |-> FALSE, areas |-> <<>>]

InitWeak ==
    /\ weakIn = NoGroups
    /\ weakOut = NotAnalysed

\* ---- question text and media, as far as an update writes them (0 is the stored
\* value, 1 the value of a payload)
Untouched == [QuestionText |-> 0, AudioUrl |-> 0]

\* what is known of the last update call: the choice ids its payload named,
\* whether it had choicesData, and whether its transaction had written anything
NoUpdate == [ids |-> {}, provided |-> FALSE, wrote |-> FALSE]

InitEdit ==
    /\ question = [q \in QuestionIDs |-> Untouched]
    /\ upd = NoUpdate

\* ---- exam management: user 1 is a teacher, user 2 an admin; exam 1, created
\* by the admin, holds questions 1 and 2 and is the exam of attempts 1 and 2
Users == {1, 2}
Role(u) == IF u = 2 THEN "ADMIN" ELSE "TEACHER"

NoQuestions == [q \in QuestionIDs |-> 0]
NoExamCall == [op |-> "none", exam |-> 0, user |-> 0, result |-> "none", clash |-> FALSE]

InitExam ==
    /\ exams = (1 :> [UserID |-> 2, TimeExam |-> 60])
    /\ nextExamID = 2
    /\ examquestion = (1 :> [q \in QuestionIDs |-> 1])
    /\ ecall = NoExamCall

\* ---- authentication: no request has arrived.  A token is described by what
\* jwt.verify looks at (its form, the algorithm of its header, whether its
\* signature was made with JWT_SECRET, whether it has expired) and by the claims
\* of its payload ("" and 0: the claim is absent or falsy)
NoToken == [form |-> "empty", alg |-> "none", signed |-> FALSE, expired |-> FALSE,
            role |-> "", email |-> "", sub |-> "", userId |-> 0, id |-> 0]
NoUser == [userId |-> 0, email |-> "", role |-> "", studentProfileId |-> 0,
           teacherProfileId |-> 0]
NoRequest == [arrived |-> FALSE, header |-> "", token |-> NoToken, jwtSecret |-> FALSE,
              user |-> NoUser]
NoResponse == [sent |-> <<>>, next |-> 0]

InitAuth ==
    /\ req = NoRequest
    /\ res = NoResponse

NoScore == [correct |-> 0, total |-> 0]

\* variant: the reading score of the full test taken from the linear formula
ScoreOutOfLinearReading(c, t) ==
    [listening |-> convertListeningScore(c),
     reading |-> PracticeScore(c, t),
     total |-> convertListeningScore(c) + PracticeScore(c, t),
     practice |-> PracticeScore(c, t),
     script |-> calculatePercentageScore(c, t)]

\* one test case: the two conversions and their sum (the script's totalScore),
\* the practice formula of the repository and the script's own
ScoreOutOf(c, t) ==
    [listening |-> convertListeningScore(c),
     reading |-> convertReadingScore(c),
     total |-> convertListeningScore(c) + convertReadingScore(c),
     practice |-> PracticeScore(c, t),
     script |-> calculatePercentageScore(c, t)]

Init ==
    /\ InitDb
    /\ InitSession
    /\ InitWeak
    /\ InitEdit
    /\ InitExam
    /\ InitAuth
    /\ scoreIn = NoScore
    /\ scoreOut = ScoreOutOf(0, 0)

\* ------------------------------------------------- QuestionRepository.update
PayloadEntries == [ID : 0..MaxChoiceID, IsCorrect : BOOLEAN]

\* the choicesData arrays of at most max entries
Payloads(max) == UNION {[1..n -> PayloadEntries] : n \in 0..max}

\* variant: the answer rows are matched by the question of the update, not by the
\* choice
ProcessEntryByQuestion(st, e, id, existing) ==
    IF e.ID # 0
    THEN LET isCorrectChanged ==
                 e.ID \in DOMAIN existing /\ existing[e.ID].IsCorrect # e.IsCorrect
         IN [choice |-> IF e.ID \in DOMAIN st.choice
                        THEN [st.choice EXCEPT ![e.ID].IsCorrect = e.IsCorrect]
                        ELSE st.choice,
             aa |-> IF isCorrectChanged
                    THEN {IF r.QuestionID = id
                          THEN [r EXCEPT !.IsCorrect = e.IsCorrect] ELSE r : r \in st.aa}
                    ELSE st.aa,
             next |-> st.next]
    ELSE [choice |-> st.choice @@
                     (st.next :> [QuestionID |-> id, IsCorrect |-> e.IsCorrect]),
          aa |-> st.aa,
          next |-> st.next + 1]

\* one iteration of the loop over choicesData; st = [choice, aa, next]
ProcessEntry(st, e, id, existing) ==
    IF e.ID # 0
    THEN LET isCorrectChanged ==
                 e.ID \in DOMAIN existing /\ existing[e.ID].IsCorrect # e.IsCorrect
         IN [choice |-> IF e.ID \in DOMAIN st.choice
                        THEN [st.choice EXCEPT ![e.ID].IsCorrect = e.IsCorrect]
                        ELSE st.choice,
             aa |-> IF isCorrectChanged
                    THEN {IF r.ChoiceID = e.ID
                          THEN [r EXCEPT !.IsCorrect = e.IsCorrect] ELSE r : r \in st.aa}
                    ELSE st.aa,
             next |-> st.next]
    ELSE [choice |-> st.choice @@
                     (st.next :> [QuestionID |-> id, IsCorrect |-> e.IsCorrect]),
          aa |-> st.aa,
          next |-> st.next + 1]

RECURSIVE ProcessPayload(_, _, _, _, _)
ProcessPayload(st, payload, i, id, existing) ==
    IF i > Len(payload) THEN st
    ELSE ProcessPayload(ProcessEntry(st, payload[i], id, existing),
                        payload, i + 1, id, existing)

\* variant: every choice the payload left out is deleted, referenced or not
DeleteAbsent(st, payload, existing) ==
    LET payloadIds == {payload[i].ID : i \in DOMAIN payload} \ {0}
        gone == {c \in DOMAIN existing : c \notin payloadIds}
    IN [st EXCEPT !.choice = [c \in (DOMAIN st.choice) \ gone |-> st.choice[c]]]

\* the loop over existingChoiceMap: delete what the payload left out, unless referenced
DeleteUnreferenced(st, payload, existing) ==
    LET payloadIds == {payload[i].ID : i \in DOMAIN payload} \ {0}
        gone == {c \in DOMAIN existing :
                    /\ c \notin payloadIds
                    /\ {r \in st.aa : r.ChoiceID = c} = {}}
    IN [st EXCEPT !.choice = [c \in (DOMAIN st.choice) \ gone |-> st.choice[c]]]

UpdateResult(id, payload) ==
    LET existing == [c \in {x \in DOMAIN choice : choice[x].QuestionID = id} |-> choice[c]]
        st0 == [choice |-> choice, aa |-> attemptanswer, next |-> nextChoiceID]
    IN DeleteUnreferenced(ProcessPayload(st0, payload, 1, id, existing), payload, existing)

NewEntries(payload) == Cardinality({i \in DOMAIN payload : payload[i].ID = 0})

Update(id, payload) ==
    /\ call = Idle
    /\ id \in QuestionIDs
    /\ nextChoiceID + NewEntries(payload) <= MaxChoiceID + 1
    /\ \E st \in {UpdateResult(id, payload)} :
          /\ choice' = st.choice
          /\ attemptanswer' = st.aa
          /\ nextChoiceID' = st.next
    /\ UNCHANGED <<attempt, tx, call, scoreVars, sessionVars, weakVars, editVars, apiVars>>

\* choicesData not provided: only text and media are written
UpdateNoChoices(id) ==
    /\ call = Idle
    /\ id \in QuestionIDs
    /\ UNCHANGED vars

\* findById found nothing: return null
UpdateMissing ==
    /\ call = Idle
    /\ UNCHANGED vars

\* ------------------------- QuestionRepository.update as one transaction
\* the steps of the transaction callback: the question row, the media row, one
\* step per entry of choicesData, the loop over existingChoiceMap
TextStep == 1
MediaStep == 2
EntryStep(i) == 2 + i
SweepStep(payload) == Len(payload) + 3

\* the last step of the callback: without choicesData there are only the two rows
LastStep(provided, payload) == IF provided THEN SweepStep(payload) ELSE MediaStep

\* manager.update(Question, id, questionData); manager.update(MediaQuestion, ...)
WriteRows(q, id, questionData, mediaData, done) ==
    [q EXCEPT ![id] =
        [QuestionText |-> IF done >= TextStep /\ questionData # NULL
                          THEN questionData ELSE @.QuestionText,
         AudioUrl |-> IF done >= MediaStep /\ mediaData # NULL
                      THEN mediaData ELSE @.AudioUrl]]

\* the first write of an entry with an ID: manager.update(Choice, choicePayload.ID, ...)
ChoiceWrite(st, e) ==
    [choice |-> IF e.ID \in DOMAIN st.choice
                THEN [st.choice EXCEPT ![e.ID].IsCorrect = e.IsCorrect]
                ELSE st.choice,
     aa |-> st.aa,
     next |-> st.next]

\* what the transaction has written when `done` of its steps are complete (and,
\* with half, the choice row of the next entry but not yet its answer rows)
Written(id, questionData, mediaData, provided, payload, done, half) ==
    LET existing == [c \in {x \in DOMAIN choice : choice[x].QuestionID = id} |-> choice[c]]
        st0 == [choice |-> choice, aa |-> attemptanswer, next |-> nextChoiceID]
        n == IF done - MediaStep < 0 THEN 0 ELSE Min(Len(payload), done - MediaStep)
        entries == IF provided
                   THEN ProcessPayload(st0, SubSeq(payload, 1, n), 1, id, existing)
                   ELSE st0
        st == IF ~provided THEN st0
              ELSE IF done = SweepStep(payload)
              THEN DeleteUnreferenced(entries, payload, existing)
              ELSE IF half THEN ChoiceWrite(entries, payload[n + 1])
              ELSE entries
    IN [choice |-> st.choice, aa |-> st.aa, next |-> st.next,
        question |-> WriteRows(question, id, questionData, mediaData, done)]

\* variant: a failed transaction keeps what it has written
RolledBackKeepsWrites(before, written) == written

\* AppDataSource.transaction: the callback threw, the writes are undone
RolledBack(before, written) == before

\* the points at which the callback can throw: before step failAt completes
\* (0: it does not throw)
FailPoints(provided, payload) == 0..LastStep(provided, payload)

\* update(id, questionData, mediaData, choicesData), with choicesData provided or not
UpdateTx(id, questionData, mediaData, provided, payload, failAt, half) ==
    /\ call = Idle
    /\ id \in QuestionIDs
    /\ provided \/ payload = <<>>
    /\ nextChoiceID + NewEntries(payload) <= MaxChoiceID + 1
    /\ failAt \in FailPoints(provided, payload)
    /\ half => /\ provided
               /\ failAt \in {EntryStep(i) : i \in DOMAIN payload}
               /\ payload[failAt - MediaStep].ID # 0
    /\ \E before \in {[choice |-> choice, aa |-> attemptanswer, next |-> nextChoiceID,
                       question |-> question]} :
       \E written \in {Written(id, questionData, mediaData, provided, payload,
                               IF failAt = 0 THEN LastStep(provided, payload)
                               ELSE failAt - 1, half)} :
       \E after \in {IF failAt = 0 THEN written ELSE RolledBack(before, written)} :
          /\ choice' = after.choice
          /\ attemptanswer' = after.aa
          /\ nextChoiceID' = after.next
          /\ question' = after.question
          /\ upd' = [ids |-> {payload[i].ID : i \in DOMAIN payload} \ {0},
                     provided |-> provided,
                     wrote |-> written # before]
    /\ call' = [op |-> "update", id |-> id,
                status |-> IF failAt = 0 THEN "returned" ELSE "failed"]
    /\ UNCHANGED <<attempt, tx, scoreVars, sessionVars, weakVars, apiVars>>

\* the choicesData arrays that only add choices
NewChoices(max) == {p \in Payloads(max) : \A i \in DOMAIN p : p[i].ID = 0}

\* earlier updates that added choices have committed; then one update call is
\* followed through its transaction to its outcome
NextUpdateTx ==
    \/ \E id \in QuestionIDs, payload \in NewChoices(MaxPayload) : Update(id, payload)
    \/ \E id \in QuestionIDs, provided \in BOOLEAN :
       \E payload \in IF provided THEN Payloads(MaxPayload) ELSE {<<>>} :
       \E failAt \in FailPoints(provided, payload), half \in BOOLEAN,
          questionData \in {NULL, 1}, mediaData \in {NULL, 1} :
           UpdateTx(id, questionData, mediaData, provided, payload, failAt, half)
    \/ UpdateMissing

SpecUpdateTx == Init /\ [][NextUpdateTx]_vars

\* ------------------------------ QuestionRepository.recalculateAttemptScores
RecalcBegin(q) ==
    /\ call = Idle
    /\ q \in QuestionIDs
    /\ tx' = [todo |-> Affected(attemptanswer, q), writes |-> <<>>]
    /\ call' = [op |-> "recalc", id |-> q, status |-> "running"]
    /\ UNCHANGED <<choice, nextChoiceID, attemptanswer, attempt, scoreVars, sessionVars, weakVars, editVars, apiVars>>

\* question not found: warn and return
RecalcMissing ==
    /\ call = Idle
    /\ UNCHANGED vars

\* variant: each attempt's scores written outside the transaction
RecalcStepAutocommit(a) ==
    /\ call.op = "recalc" /\ call.status = "running"
    /\ a \in tx.todo
    /\ tx' = [todo |-> tx.todo \ {a}, writes |-> tx.writes]
    /\ attempt' = [attempt EXCEPT ![a] =
                      ApplyScores(@, AttemptScores(attemptanswer, a, attempt[a].Type))]
    /\ UNCHANGED <<choice, nextChoiceID, attemptanswer, call, scoreVars, sessionVars, weakVars, editVars, apiVars>>

\* one iteration of the loop over affectedAttempts, inside the transaction
RecalcStep(a) ==
    /\ call.op = "recalc" /\ call.status = "running"
    /\ a \in tx.todo
    /\ tx' = [todo |-> tx.todo \ {a},
              writes |-> tx.writes @@
                         (a :> AttemptScores(attemptanswer, a, attempt[a].Type))]
    /\ UNCHANGED <<choice, nextChoiceID, attemptanswer, attempt, call, scoreVars, sessionVars, weakVars, editVars, apiVars>>

\* the transaction callback returns: everything it wrote is committed
RecalcCommit ==
    /\ call.op = "recalc" /\ call.status = "running"
    /\ tx.todo = {}
    /\ attempt' = [a \in DOMAIN attempt |->
                      IF a \in DOMAIN tx.writes
                      THEN ApplyScores(attempt[a], tx.writes[a]) ELSE attempt[a]]
    /\ tx' = NoTx
    /\ call' = [call EXCEPT !.status = "returned"]
    /\ UNCHANGED <<choice, nextChoiceID, attemptanswer, scoreVars, sessionVars, weakVars, editVars, apiVars>>

\* variant: a failure keeps what the loop has written so far
RecalcFailKeepsWrites ==
    /\ call.op = "recalc" /\ call.status = "running"
    /\ attempt' = [a \in DOMAIN attempt |->
                      IF a \in DOMAIN tx.writes
                      THEN ApplyScores(attempt[a], tx.writes[a]) ELSE attempt[a]]
    /\ tx' = NoTx
    /\ call' = [call EXCEPT !.status = "failed"]
    /\ UNCHANGED <<choice, nextChoiceID, attemptanswer, scoreVars, sessionVars, weakVars, editVars, apiVars>>

\* a query or update inside the callback throws: the transaction is rolled back
RecalcFail ==
    /\ call.op = "recalc" /\ call.status = "running"
    /\ tx' = NoTx
    /\ call' = [call EXCEPT !.status = "failed"]
    /\ UNCHANGED <<choice, nextChoiceID, attemptanswer, attempt, scoreVars, sessionVars, weakVars, editVars, apiVars>>

\* the promise of recalculateAttemptScores settles: the caller goes on
RecalcReturn ==
    /\ call.op = "recalc" /\ call.status \in {"returned", "failed"}
    /\ call' = Idle
    /\ UNCHANGED <<choice, nextChoiceID, attemptanswer, attempt, tx, scoreVars, sessionVars, weakVars, editVars, apiVars>>

Next ==
    \/ \E id \in QuestionIDs, payload \in Payloads(MaxPayload) : Update(id, payload)
    \/ \E id \in QuestionIDs : UpdateNoChoices(id)
    \/ UpdateMissing
    \/ \E q \in QuestionIDs : RecalcBegin(q)
    \/ RecalcMissing
    \/ \E a \in AttemptIDs : RecalcStep(a)
    \/ RecalcCommit
    \/ RecalcFail
    \/ RecalcReturn

Spec == Init /\ [][Next]_vars

\* --------------------------------- question updates alone, longer payloads
NextUpdate ==
    \/ \E id \in QuestionIDs, payload \in Payloads(MaxUpdatePayload) : Update(id, payload)
    \/ \E id \in QuestionIDs : UpdateNoChoices(id)
    \/ UpdateMissing

SpecUpdate == Init /\ [][NextUpdate]_vars

\* ------------------------------------------- the scoring functions alone
ScoreCases ==
    {[correct |-> c, total |-> t] : c \in 0..FullTestTotal, t \in (0..MaxTotal) \cup {FullTestTotal}}

\* one test case of the comparison script, or one call of the conversion code
ScoreCase(c, t) ==
    /\ c <= t
    /\ scoreIn' = [correct |-> c, total |-> t]
    /\ scoreOut' = ScoreOutOf(c, t)
    /\ UNCHANGED <<dbVars, sessionVars, weakVars, editVars, apiVars>>

InitScoring ==
    /\ InitDb
    /\ InitSession
    /\ InitWeak
    /\ InitEdit
    /\ InitExam
    /\ InitAuth
    /\ scoreIn = NoScore
    /\ scoreOut = ScoreOutOf(0, 0)

NextScoring == \E x \in ScoreCases : ScoreCase(x.correct, x.total)

SpecScoring == InitScoring /\ [][NextScoring]_vars

\* ---------------- the attempt session (modelled from the specification, 4.1-4.2)
Modes == {"FULL_TEST", "PRACTICE_BY_PART"}

\* part selections a client may send; 9 is not a TOEIC part
PartSelections == {{}, {1}, {5}, {9}}

\* the attempt table assigns ids by auto-increment
NextAttemptID == Cardinality(DOMAIN attempt) + 1

StartResult(exam, mode, parts) ==
    IF exam \notin ExamIDs THEN "ExamNotFound"
    ELSE IF mode = "PRACTICE_BY_PART" /\ (parts = {} \/ ~(parts \subseteq Sections))
         THEN "InvalidPartSelection"
         ELSE "ok"

NewAttempt(student, exam, mode, parts) ==
    [StudentProfileID |-> student,
     ExamID |-> exam,
     Type |-> mode,
     Parts |-> IF mode = "FULL_TEST" THEN Sections ELSE parts,
     StartedAt |-> now,
     SubmittedAt |-> NULL,
     ScorePercent |-> NULL,
     ScoreListening |-> NULL,
     ScoreReading |-> NULL]

\* variant: starting an attempt closes the student's attempts still in progress
StartAttemptClosesPrior(student, exam, mode, parts) ==
    /\ NextAttemptID <= MaxAttemptID
    /\ attempt' = IF StartResult(exam, mode, parts) = "ok"
                  THEN [a \in DOMAIN attempt |->
                           IF attempt[a].StudentProfileID = student
                              /\ attempt[a].SubmittedAt = NULL
                           THEN [attempt[a] EXCEPT !.SubmittedAt = now]
                           ELSE attempt[a]]
                       @@ (NextAttemptID :> NewAttempt(student, exam, mode, parts))
                  ELSE attempt
    /\ UNCHANGED <<choice, nextChoiceID, attemptanswer, tx, call, now, sub, reply,
                   scoreVars, weakVars, editVars, apiVars>>

\* startAttempt(examRef, mode, partSelection, studentRef)
StartAttempt(student, exam, mode, parts) ==
    /\ NextAttemptID <= MaxAttemptID
    /\ attempt' = IF StartResult(exam, mode, parts) = "ok"
                  THEN attempt @@ (NextAttemptID :> NewAttempt(student, exam, mode, parts))
                  ELSE attempt
    /\ UNCHANGED <<choice, nextChoiceID, attemptanswer, tx, call, now, sub, reply,
                   scoreVars, weakVars, editVars, apiVars>>

\* the student's attempts in progress
Active(student) ==
    {a \in DOMAIN attempt :
        attempt[a].StudentProfileID = student /\ attempt[a].SubmittedAt = NULL}

\* the most recently started of them (the later id among those started together)
ActiveAttempt(student) ==
    IF Active(student) = {} THEN NULL
    ELSE CHOOSE a \in Active(student) :
             \A b \in Active(student) :
                 \/ attempt[b].StartedAt < attempt[a].StartedAt
                 \/ attempt[b].StartedAt = attempt[a].StartedAt /\ b <= a

\* getActiveAttempt(studentRef): a read
GetActiveAttempt(student) ==
    /\ reply' = [op |-> "getActiveAttempt", student |-> student,
                 attempt |-> ActiveAttempt(student)]
    /\ UNCHANGED <<dbVars, now, sub, scoreVars, weakVars, editVars, apiVars>>

\* the clock advances one minute
Tick ==
    /\ now < MaxTime
    /\ now' = now + 1
    /\ UNCHANGED <<dbVars, sub, reply, scoreVars, weakVars, editVars, apiVars>>

Done(c, result) == [sub[c] EXCEPT !.pc = "done", !.result = result]

\* submitAttempt step 1: load the attempt
SubmitLoad(c, a) ==
    /\ sub[c].pc = "idle"
    /\ sub' = [sub EXCEPT ![c] =
                  IF a \notin DOMAIN attempt
                  THEN [NoCall EXCEPT !.pc = "done", !.attempt = a, !.result = "AttemptNotFound"]
                  ELSE IF attempt[a].SubmittedAt # NULL
                  THEN [NoCall EXCEPT !.pc = "done", !.attempt = a, !.result = "AlreadySubmitted"]
                  ELSE [NoCall EXCEPT !.pc = "loaded", !.attempt = a, !.open = TRUE]]
    /\ UNCHANGED <<dbVars, now, reply, scoreVars, weakVars, editVars, apiVars>>

\* variant: an attempt past its limit is closed when its submission is rejected
SubmitCheckTimeClosesExpired(c) ==
    /\ sub[c].pc = "loaded"
    /\ IF now - attempt[sub[c].attempt].StartedAt > TimeExam
       THEN /\ sub' = [sub EXCEPT ![c] = Done(c, "TimeExceeded")]
            /\ attempt' = [attempt EXCEPT ![sub[c].attempt].SubmittedAt = now]
       ELSE /\ sub' = [sub EXCEPT ![c] = [@ EXCEPT !.pc = "timed", !.at = now]]
            /\ attempt' = attempt
    /\ UNCHANGED <<choice, nextChoiceID, attemptanswer, tx, call, now, reply,
                   scoreVars, weakVars, editVars, apiVars>>

\* step 2: elapsed = now - startedAt against the exam's time limit
SubmitCheckTime(c) ==
    /\ sub[c].pc = "loaded"
    /\ sub' = [sub EXCEPT ![c] =
                  IF now - attempt[sub[c].attempt].StartedAt > TimeExam
                  THEN Done(c, "TimeExceeded")
                  ELSE [@ EXCEPT !.pc = "timed", !.at = now]]
    /\ UNCHANGED <<dbVars, now, reply, scoreVars, weakVars, editVars, apiVars>>

\* another grading transaction holds the attempt
Locked(a) == \E c \in Callers : sub[c].pc = "grading" /\ sub[c].attempt = a

\* variant: the transaction begins without looking at submittedAt again
SubmitBeginUnchecked(c) ==
    /\ sub[c].pc = "timed"
    /\ sub' = [sub EXCEPT ![c] = [@ EXCEPT !.pc = "grading"]]
    /\ UNCHANGED <<dbVars, now, reply, scoreVars, weakVars, editVars, apiVars>>

\* the grading transaction begins: submittedAt IS NULL is checked and claimed
\* atomically; a second transaction waits for the first to end
SubmitBegin(c) ==
    /\ sub[c].pc = "timed"
    /\ ~Locked(sub[c].attempt)
    /\ sub' = [sub EXCEPT ![c] =
                  IF attempt[sub[c].attempt].SubmittedAt # NULL
                  THEN Done(c, "AlreadySubmitted")
                  ELSE [@ EXCEPT !.pc = "grading"]]
    /\ UNCHANGED <<dbVars, now, reply, scoreVars, weakVars, editVars, apiVars>>

\* answers[]: a chosen choice for some of the questions 1..3 (3 is in no exam)
AnswerSets == UNION {[qs -> 1..3] : qs \in SUBSET (1..3)}

\* the questions the attempt is graded on: the exam's, restricted to its parts
Pool(a) == {q \in ExamQuestions : Section(q) \in attempt[a].Parts}

GradeError(a, answers) ==
    IF \E q \in DOMAIN answers : q \notin Pool(a) THEN "QuestionNotInExam"
    ELSE IF \E q \in DOMAIN answers :
                \/ answers[q] \notin DOMAIN choice
                \/ choice[answers[q]].QuestionID # q
         THEN "ChoiceNotFound"
         ELSE "ok"

\* one row per question of the pool; an unanswered question gets a null choice
GradedRows(a, answers) ==
    {[AttemptID |-> a, QuestionID |-> q, ChoiceID |-> answers[q],
      IsCorrect |-> choice[answers[q]].IsCorrect] : q \in DOMAIN answers}
    \cup {[AttemptID |-> a, QuestionID |-> q, ChoiceID |-> NULL, IsCorrect |-> FALSE] :
              q \in Pool(a) \ DOMAIN answers}

\* variant: the rows of the answers that passed validation stay after a failure
GradeWritesPartial(a, at, answers) ==
    LET valid == {q \in DOMAIN answers :
                     /\ q \in Pool(a)
                     /\ answers[q] \in DOMAIN choice
                     /\ choice[answers[q]].QuestionID = q}
        rows == GradedRows(a, [q \in valid |-> answers[q]])
        s == AttemptScores(rows, a, attempt[a].Type)
    IN [result |-> GradeError(a, answers),
        rows |-> rows,
        scores |-> s,
        attemptanswer |-> attemptanswer \cup rows,
        attempt |-> IF GradeError(a, answers) = "ok"
                    THEN [attempt EXCEPT ![a] = [ApplyScores(@, s) EXCEPT !.SubmittedAt = at]]
                    ELSE attempt]

\* what the grading transaction leaves: everything, or nothing after a failure
GradeWrites(a, at, answers) ==
    LET rows == GradedRows(a, answers)
        s == AttemptScores(rows, a, attempt[a].Type)
    IN IF GradeError(a, answers) = "ok"
       THEN [result |-> "ok",
             rows |-> rows,
             scores |-> s,
             attemptanswer |-> attemptanswer \cup rows,
             attempt |-> [attempt EXCEPT ![a] =
                             [ApplyScores(@, s) EXCEPT !.SubmittedAt = at]]]
       ELSE [result |-> GradeError(a, answers),
             rows |-> {},
             scores |-> <<>>,
             attemptanswer |-> attemptanswer,
             attempt |-> attempt]

\* steps 3 and 4: grade and persist submittedAt with the results, then commit
\* (or roll back)
SubmitGrade(c, answers) ==
    /\ sub[c].pc = "grading"
    /\ \E w \in {GradeWrites(sub[c].attempt, sub[c].at, answers)} :
          /\ attemptanswer' = w.attemptanswer
          /\ attempt' = w.attempt
          /\ sub' = [sub EXCEPT ![c] = [@ EXCEPT !.pc = "done", !.result = w.result,
                                                 !.rows = w.rows, !.scores = w.scores]]
    /\ UNCHANGED <<choice, nextChoiceID, tx, call, now, reply, scoreVars, weakVars, editVars, apiVars>>

\* the caller has its response
SubmitReturn(c) ==
    /\ sub[c].pc = "done"
    /\ sub' = [sub EXCEPT ![c] = NoCall]
    /\ UNCHANGED <<dbVars, now, reply, scoreVars, weakVars, editVars, apiVars>>

\* ---- concurrent submissions: attempt 3 (FULL_TEST, student 1) is in progress
InitSubmit ==
    /\ InitSession
    /\ InitWeak
    /\ InitEdit
    /\ InitExam
    /\ InitAuth
    /\ choice = InitChoice
    /\ nextChoiceID = 4
    /\ attemptanswer = {AnswerRow(1, 1, 1), AnswerRow(1, 2, NULL), AnswerRow(2, 1, 2)}
    /\ attempt = [a \in AttemptIDs |-> GradedAttempt(attemptanswer, a)]
                    @@ (3 :> NewAttempt(1, 1, "FULL_TEST", {}))
    /\ tx = NoTx
    /\ call = Idle
    /\ scoreIn = NoScore
    /\ scoreOut = ScoreOutOf(0, 0)

NextSubmit ==
    \/ Tick
    \/ \E c \in Callers, a \in 1..MaxAttemptID : SubmitLoad(c, a)
    \/ \E c \in Callers : SubmitCheckTime(c)
    \/ \E c \in Callers : SubmitBegin(c)
    \/ \E c \in Callers, answers \in AnswerSets : SubmitGrade(c, answers)
    \/ \E c \in Callers : SubmitReturn(c)

SpecSubmit == InitSubmit /\ [][NextSubmit]_vars

\* ---- starting and resuming: students start attempts and look up the active
\* one while one client submits
NextActive ==
    \/ \E st \in Students, e \in {1, 2}, m \in Modes, p \in PartSelections :
           StartAttempt(st, e, m, p)
    \/ \E st \in Students : GetActiveAttempt(st)
    \/ Tick
    \/ \E a \in 1..MaxAttemptID : SubmitLoad(1, a)
    \/ SubmitCheckTime(1)
    \/ SubmitBegin(1)
    \/ \E answers \in {<<>>} : SubmitGrade(1, answers)
    \/ SubmitReturn(1)

SpecActive == InitSubmit /\ [][NextActive]_vars

\* ---- the life of an attempt: student 1 starts and submits attempts while
\* recalculations run (the loop takes the affected attempts in id order)
LifecycleAnswers == {(1 :> 1), (3 :> 3)}

FirstTodo == {a \in tx.todo : \A b \in tx.todo : a <= b}

NextLifecycle ==
    \/ \E e \in {1, 2}, m \in Modes, p \in {{}, {1}} : StartAttempt(1, e, m, p)
    \/ Tick
    \/ \E a \in 1..MaxAttemptID : SubmitLoad(1, a)
    \/ SubmitCheckTime(1)
    \/ SubmitBegin(1)
    \/ \E answers \in LifecycleAnswers : SubmitGrade(1, answers)
    \/ SubmitReturn(1)
    \/ \E q \in QuestionIDs : RecalcBegin(q)
    \/ \E a \in FirstTodo : RecalcStep(a)
    \/ RecalcCommit
    \/ RecalcFail
    \/ RecalcReturn

SpecLifecycle == InitSubmit /\ [][NextLifecycle]_vars

\* ---- unanswered questions: attempt 3 of student 1, a full test or a practice
\* on parts 1 and 5, is in progress; it is submitted while questions are edited
\* and recalculations run
InitEdits ==
    /\ InitSession
    /\ InitWeak
    /\ InitEdit
    /\ InitExam
    /\ InitAuth
    /\ choice = InitChoice
    /\ nextChoiceID = 4
    /\ attemptanswer = {AnswerRow(1, 1, 1), AnswerRow(1, 2, NULL), AnswerRow(2, 1, 2)}
    /\ \E m \in Modes :
          attempt = [a \in AttemptIDs |-> GradedAttempt(attemptanswer, a)]
                       @@ (3 :> NewAttempt(1, 1, m, {1, 5}))
    /\ tx = NoTx
    /\ call = Idle
    /\ scoreIn = NoScore
    /\ scoreOut = ScoreOutOf(0, 0)

\* answers[]: question 1 answered with its choice 1, or nothing answered
EditsAnswers == {(1 :> 1), <<>>}

\* the choicesData arrays that add no choice
NamedChoices(max) == {p \in Payloads(max) : \A i \in DOMAIN p : p[i].ID # 0}

\* the submission, the edits and the recalculations follow one another: a step
\* of one is taken only while the others are at rest
NextEdits ==
    \/ call = Idle /\ \E a \in 1..MaxAttemptID : SubmitLoad(1, a)
    \/ SubmitCheckTime(1)
    \/ SubmitBegin(1)
    \/ \E answers \in EditsAnswers : SubmitGrade(1, answers)
    \/ SubmitReturn(1)
    \/ sub[1].pc = "idle" /\ \E id \in QuestionIDs, payload \in NamedChoices(MaxPayload) :
                                Update(id, payload)
    \/ sub[1].pc = "idle" /\ \E q \in QuestionIDs : RecalcBegin(q)
    \/ \E a \in FirstTodo : RecalcStep(a)
    \/ RecalcCommit
    \/ RecalcFail
    \/ RecalcReturn

SpecEdits == InitEdits /\ [][NextEdits]_vars

\* ------------------- the weak-area analyzer (modelled from the specification, 4.4)
\* the groups of a breakdown (question types, or sections) and the threshold in percent
GroupIDs == 1..3
WeakThreshold == 60

\* a breakdown: correct and total per group
GroupResults ==
    UNION {{[correct |-> c, total |-> t] : c \in 0..t} : t \in 0..MaxGroupTotal}

Breakdowns == [GroupIDs -> GroupResults]

\* accuracy of g strictly below that of h (both with questions)
LessAccurate(groups, g, h) ==
    groups[g].correct * groups[h].total < groups[h].correct * groups[g].total

\* variant: a group exactly at the threshold is reported too
IsWeakInclusive(x) == x.total > 0 /\ x.correct * 100 <= WeakThreshold * x.total

\* a group with questions whose accuracy is strictly below the threshold
IsWeak(x) == x.total > 0 /\ x.correct * 100 < WeakThreshold * x.total

RECURSIVE InsertByAccuracy(_, _, _)
InsertByAccuracy(groups, g, sorted) ==
    IF sorted = <<>> THEN <<g>>
    ELSE IF LessAccurate(groups, g, Head(sorted)) THEN <<g>> \o sorted
    ELSE <<Head(sorted)>> \o InsertByAccuracy(groups, g, Tail(sorted))

\* the groups of ids sorted by accuracy, worst first
RECURSIVE SortByAccuracy(_, _)
SortByAccuracy(groups, ids) ==
    IF ids = {} THEN <<>>
    ELSE LET g == CHOOSE x \in ids : \A y \in ids : y <= x
         IN InsertByAccuracy(groups, g, SortByAccuracy(groups, ids \ {g}))

WeakAreas(groups) ==
    SortByAccuracy(groups, {g \in DOMAIN groups : IsWeak(groups[g])})

\* the analyzer runs on the breakdown of a graded submission
Analyze ==
    /\ ~weakOut.done
    /\ weakOut' = [done |-> TRUE, areas |-> WeakAreas(weakIn)]
    /\ UNCHANGED <<dbVars, scoreVars, sessionVars, weakIn, editVars, apiVars>>

InitAnalyzer ==
    /\ InitDb
    /\ InitSession
    /\ InitEdit
    /\ InitExam
    /\ InitAuth
    /\ scoreIn = NoScore
    /\ scoreOut = ScoreOutOf(0, 0)
    /\ weakIn \in Breakdowns
    /\ weakOut = NotAnalysed

NextAnalyzer == Analyze

SpecAnalyzer == InitAnalyzer /\ [][NextAnalyzer]_vars

\* ------------------------------------------------- ExamService, ExamRepository
\* the questions arrays of a request: question ids, 3 being the id of no question
\* (the OrderIndex of an entry is stored as given and left out here)
ExamPayloads == UNION {[1..n -> 1..3] : n \in 0..MaxExamPayload}

CreateExamDtos == [Title : {"", "T"}, TimeExam : {0, 60}, questions : ExamPayloads]

UpdateExamDtos == [TimeExam : {0, 90}]

Ids(payload) == {payload[i] : i \in DOMAIN payload}

Times(payload, q) == Cardinality({i \in DOMAIN payload : payload[i] = q})

\* QuestionRepository.findByIds: one row per stored question whose ID is IN (ids)
findByIds(payload) == Ids(payload) \cap QuestionIDs

\* the relation nobody loaded
Undefined == [loaded |-> FALSE, rows |-> {}]

\* ExamRepository.findById: the exam with its examType and examQuestions; the
\* attempts relation is not among the relations asked for
findById(e) ==
    [row |-> exams[e], examQuestions |-> examquestion[e], attempts |-> Undefined]

\* exam.attempts && exam.attempts.length > 0
HasTakers(found) == found.attempts.loaded /\ found.attempts.rows # {}

\* the attempts of exam e, and their answer rows
AttemptsOf(e) == {a \in DOMAIN attempt : attempt[a].ExamID = e}

\* ExamRepository.addQuestions: one ExamQuestion row per entry of the payload
addQuestions(eq, e, payload) ==
    [eq EXCEPT ![e] = [q \in QuestionIDs |-> @[q] + Times(payload, q)]]

\* the payload names a question twice, or a question the exam already holds
Clash(e, payload) ==
    \/ \E i, j \in DOMAIN payload : i # j /\ payload[i] = payload[j]
    \/ e \in DOMAIN examquestion /\ \E q \in findByIds(payload) : examquestion[e][q] > 0

ExamCall(op, e, u, result, clash) ==
    [op |-> op, exam |-> e, user |-> u, result |-> result, clash |-> clash]

\* ExamService.createExam(examData, userId)
CreateExam(dto, u) ==
    /\ nextExamID <= MaxExamID
    /\ IF dto.Title = "" \/ dto.TimeExam < 1 \/ dto.TimeExam > 240
       THEN /\ ecall' = ExamCall("createExam", 0, u, "invalid", Clash(0, dto.questions))
            /\ UNCHANGED <<exams, nextExamID, examquestion>>
       ELSE /\ exams' = exams @@ (nextExamID :> [UserID |-> u, TimeExam |-> dto.TimeExam])
            /\ nextExamID' = nextExamID + 1
            /\ IF Cardinality(findByIds(dto.questions)) # Len(dto.questions)
               THEN /\ examquestion' = examquestion @@ (nextExamID :> NoQuestions)
                    /\ ecall' = ExamCall("createExam", nextExamID, u,
                                         "Some questions do not exist",
                                         Clash(0, dto.questions))
               ELSE /\ examquestion' = addQuestions(examquestion @@ (nextExamID :> NoQuestions),
                                                    nextExamID, dto.questions)
                    /\ ecall' = ExamCall("createExam", nextExamID, u, "ok",
                                         Clash(0, dto.questions))
    /\ UNCHANGED <<dbVars, scoreVars, sessionVars, weakVars, editVars, req, res>>

\* ExamService.updateExam(examId, updateData, userId)
UpdateExam(e, dto, u) ==
    /\ IF e \notin DOMAIN exams
       THEN /\ ecall' = ExamCall("updateExam", e, u, "Exam not found", FALSE)
            /\ exams' = exams
       ELSE IF findById(e).row.UserID # u
       THEN /\ ecall' = ExamCall("updateExam", e, u, "no permission", FALSE)
            /\ exams' = exams
       ELSE IF dto.TimeExam < 1 \/ dto.TimeExam > 240
       THEN /\ ecall' = ExamCall("updateExam", e, u, "invalid", FALSE)
            /\ exams' = exams
       ELSE /\ ecall' = ExamCall("updateExam", e, u, "ok", FALSE)
            /\ exams' = [exams EXCEPT ![e].TimeExam = dto.TimeExam]
    /\ UNCHANGED <<dbVars, scoreVars, sessionVars, weakVars, editVars,
                   nextExamID, examquestion, req, res>>

\* ExamService.deleteExam(examId, userId); ExamRepository.delete removes the exam
\* row, and the database either removes the rows that reference it (cascade) or
\* refuses the delete while an attempt references the exam
DeleteExam(e, u, cascade) ==
    /\ IF e \notin DOMAIN exams
       THEN /\ ecall' = ExamCall("deleteExam", e, u, "Exam not found", FALSE)
            /\ UNCHANGED <<exams, examquestion, attempt, attemptanswer>>
       ELSE IF findById(e).row.UserID # u
       THEN /\ ecall' = ExamCall("deleteExam", e, u, "no permission", FALSE)
            /\ UNCHANGED <<exams, examquestion, attempt, attemptanswer>>
       ELSE IF HasTakers(findById(e))
       THEN /\ ecall' = ExamCall("deleteExam", e, u, "Cannot delete exam that has been taken",
                                 FALSE)
            /\ UNCHANGED <<exams, examquestion, attempt, attemptanswer>>
       ELSE IF AttemptsOf(e) # {} /\ ~cascade
       THEN /\ ecall' = ExamCall("deleteExam", e, u, "QueryFailedError", FALSE)
            /\ UNCHANGED <<exams, examquestion, attempt, attemptanswer>>
       ELSE /\ ecall' = ExamCall("deleteExam", e, u, "ok", FALSE)
            /\ exams' = [x \in DOMAIN exams \ {e} |-> exams[x]]
            /\ examquestion' = [x \in DOMAIN examquestion \ {e} |-> examquestion[x]]
            /\ attempt' = [a \in DOMAIN attempt \ AttemptsOf(e) |-> attempt[a]]
            /\ attemptanswer' = {r \in attemptanswer : r.AttemptID \notin AttemptsOf(e)}
    /\ UNCHANGED <<choice, nextChoiceID, tx, call, scoreVars, sessionVars, weakVars,
                   editVars, nextExamID, req, res>>

\* variant: the check against the questions of the exam left out
AddQuestionsToExamUnchecked(e, payload, u) ==
    /\ IF e \notin DOMAIN exams
       THEN /\ ecall' = ExamCall("addQuestionsToExam", e, u, "Exam not found", Clash(e, payload))
            /\ examquestion' = examquestion
       ELSE IF findById(e).row.UserID # u
       THEN /\ ecall' = ExamCall("addQuestionsToExam", e, u, "no permission", Clash(e, payload))
            /\ examquestion' = examquestion
       ELSE IF Cardinality(findByIds(payload)) # Len(payload)
       THEN /\ ecall' = ExamCall("addQuestionsToExam", e, u, "Some questions do not exist",
                                 Clash(e, payload))
            /\ examquestion' = examquestion
       ELSE /\ ecall' = ExamCall("addQuestionsToExam", e, u, "ok", Clash(e, payload))
            /\ examquestion' = addQuestions(examquestion, e, payload)
    /\ UNCHANGED <<dbVars, scoreVars, sessionVars, weakVars, editVars,
                   exams, nextExamID, req, res>>

\* ExamService.addQuestionsToExam(examId, questions, userId)
AddQuestionsToExam(e, payload, u) ==
    /\ IF e \notin DOMAIN exams
       THEN /\ ecall' = ExamCall("addQuestionsToExam", e, u, "Exam not found", Clash(e, payload))
            /\ examquestion' = examquestion
       ELSE IF findById(e).row.UserID # u
       THEN /\ ecall' = ExamCall("addQuestionsToExam", e, u, "no permission", Clash(e, payload))
            /\ examquestion' = examquestion
       ELSE IF Cardinality(findByIds(payload)) # Len(payload)
       THEN /\ ecall' = ExamCall("addQuestionsToExam", e, u, "Some questions do not exist",
                                 Clash(e, payload))
            /\ examquestion' = examquestion
       ELSE IF \E q \in Ids(payload) : findById(e).examQuestions[q] > 0
       THEN /\ ecall' = ExamCall("addQuestionsToExam", e, u, "already in this exam",
                                 Clash(e, payload))
            /\ examquestion' = examquestion
       ELSE /\ ecall' = ExamCall("addQuestionsToExam", e, u, "ok", Clash(e, payload))
            /\ examquestion' = addQuestions(examquestion, e, payload)
    /\ UNCHANGED <<dbVars, scoreVars, sessionVars, weakVars, editVars,
                   exams, nextExamID, req, res>>

\* ExamService.removeQuestionsFromExam(examId, questionIds, userId)
RemoveQuestionsFromExam(e, ids, u) ==
    /\ IF e \notin DOMAIN exams
       THEN /\ ecall' = ExamCall("removeQuestionsFromExam", e, u, "Exam not found", FALSE)
            /\ examquestion' = examquestion
       ELSE IF findById(e).row.UserID # u
       THEN /\ ecall' = ExamCall("removeQuestionsFromExam", e, u, "no permission", FALSE)
            /\ examquestion' = examquestion
       ELSE /\ ecall' = ExamCall("removeQuestionsFromExam", e, u, "ok", FALSE)
            /\ examquestion' = [examquestion EXCEPT ![e] =
                                   [q \in QuestionIDs |-> IF q \in ids THEN 0 ELSE @[q]]]
    /\ UNCHANGED <<dbVars, scoreVars, sessionVars, weakVars, editVars,
                   exams, nextExamID, req, res>>

\* ExamService.duplicateExam(examId, userId)
DuplicateExam(e, u) ==
    /\ nextExamID <= MaxExamID
    /\ IF e \notin DOMAIN exams
       THEN /\ ecall' = ExamCall("duplicateExam", e, u, "Exam not found", FALSE)
            /\ UNCHANGED <<exams, nextExamID, examquestion>>
       ELSE /\ ecall' = ExamCall("duplicateExam", nextExamID, u, "ok", FALSE)
            /\ exams' = exams @@ (nextExamID :> [UserID |-> u,
                                                 TimeExam |-> findById(e).row.TimeExam])
            /\ nextExamID' = nextExamID + 1
            /\ examquestion' = examquestion @@ (nextExamID :> findById(e).examQuestions)
    /\ UNCHANGED <<dbVars, scoreVars, sessionVars, weakVars, editVars, req, res>>

NextExam ==
    \/ \E dto \in CreateExamDtos, u \in Users : CreateExam(dto, u)
    \/ \E e \in 1..MaxExamID, dto \in UpdateExamDtos, u \in Users : UpdateExam(e, dto, u)
    \/ \E e \in 1..MaxExamID, u \in Users, cascade \in BOOLEAN : DeleteExam(e, u, cascade)
    \/ \E e \in 1..MaxExamID, payload \in ExamPayloads, u \in Users :
           AddQuestionsToExam(e, payload, u)
    \/ \E e \in 1..MaxExamID, ids \in (SUBSET (1..3)) \ {{}}, u \in Users :
           RemoveQuestionsFromExam(e, ids, u)
    \/ \E e \in 1..MaxExamID, u \in Users : DuplicateExam(e, u)

SpecExam == Init /\ [][NextExam]_vars

\* ---- the calls that add questions to exams and take them out, alone
NextExamQuestions ==
    \/ \E dto \in CreateExamDtos, u \in Users : CreateExam(dto, u)
    \/ \E e \in 1..MaxExamID, payload \in ExamPayloads, u \in Users :
           AddQuestionsToExam(e, payload, u)
    \/ \E e \in 1..MaxExamID, ids \in (SUBSET (1..3)) \ {{}}, u \in Users :
           RemoveQuestionsFromExam(e, ids, u)
    \/ \E e \in 1..MaxExamID, u \in Users : DuplicateExam(e, u)

SpecExamQuestions == Init /\ [][NextExamQuestions]_vars

\* ------------------------------------------------------------ authMiddleware
Roles == {"", "STUDENT", "TEACHER", "ADMIN"}

\* the tokens a request can carry: nothing after "Bearer ", a string that is not
\* a JWT, or a JWT
Tokens ==
    {NoToken, [NoToken EXCEPT !.form = "malformed"]} \cup
    [form : {"jwt"}, alg : {"HS256", "HS512", "none"}, signed : BOOLEAN,
     expired : BOOLEAN, role : Roles, email : {"", "e"}, sub : {"", "s"},
     userId : 0..MaxTokenID, id : 0..MaxTokenID]

\* the requests: no Authorization header, a header of another scheme, or
\* "Bearer <token>"; JWT_SECRET is configured or not
Requests ==
    {[arrived |-> TRUE, header |-> h, token |-> t, jwtSecret |-> s, user |-> NoUser] :
        h \in {"", "Basic"}, t \in {NoToken}, s \in BOOLEAN} \cup
    {[arrived |-> TRUE, header |-> "Bearer", token |-> t, jwtSecret |-> s, user |-> NoUser] :
        t \in Tokens, s \in BOOLEAN}

\* jwt.verify(token, jwtSecret, {algorithms: [alg]}): the decoded payload, or the
\* error it throws
verify(t, alg) ==
    IF t.form # "jwt" THEN "JsonWebTokenError"
    ELSE IF t.alg # alg THEN "JsonWebTokenError"
    ELSE IF ~t.signed THEN "JsonWebTokenError"
    ELSE IF t.expired THEN "TokenExpiredError"
    ELSE "decoded"

\* HS256 first, then HS512; when both fail the error of HS256 is thrown
verifyEither(t) ==
    IF verify(t, "HS256") = "decoded" \/ verify(t, "HS512") = "decoded"
    THEN "decoded"
    ELSE verify(t, "HS256")

\* the user of a payload with an id; the tokens of the model carry no profile
\* ids of their own
Normalized(userId, email, role, fromId) ==
    [userId |-> userId, email |-> email, role |-> role,
     studentProfileId |-> IF fromId /\ role = "STUDENT" THEN userId ELSE 0,
     teacherProfileId |-> IF fromId /\ role = "TEACHER" THEN userId ELSE 0]

\* variant: a payload without a role is accepted
normalizeTokenPayloadAnyRole(decoded) ==
    LET email == IF decoded.email # "" THEN decoded.email ELSE decoded.sub
    IN IF email = "" THEN NoUser
       ELSE IF decoded.userId # 0
       THEN Normalized(decoded.userId, email, decoded.role, FALSE)
       ELSE IF decoded.id # 0
       THEN Normalized(decoded.id, email, decoded.role, TRUE)
       ELSE NoUser

\* normalizeTokenPayload; NoUser stands for null
normalizeTokenPayload(decoded) ==
    LET email == IF decoded.email # "" THEN decoded.email ELSE decoded.sub
    IN IF decoded.role = "" THEN NoUser
       ELSE IF email = "" THEN NoUser
       ELSE IF decoded.userId # 0
       THEN Normalized(decoded.userId, email, decoded.role, FALSE)
       ELSE IF decoded.id # 0
       THEN Normalized(decoded.id, email, decoded.role, TRUE)
       ELSE NoUser

\* res.status(status).json({success: false, error})
Send(status, error) == [sent |-> <<[status |-> status, error |-> error]>>, next |-> 0]

\* what authMiddleware does with a request: the response it sends or its call of
\* next(), and the user it attaches
Handled(r) ==
    IF r.header = "" THEN [res |-> Send(401, "UNAUTHORIZED"), user |-> NoUser]
    ELSE IF r.header # "Bearer" THEN [res |-> Send(401, "UNAUTHORIZED"), user |-> NoUser]
    ELSE IF r.token.form = "empty" THEN [res |-> Send(401, "UNAUTHORIZED"), user |-> NoUser]
    ELSE IF ~r.jwtSecret THEN [res |-> Send(500, "INTERNAL_SERVER_ERROR"), user |-> NoUser]
    ELSE IF verifyEither(r.token) = "TokenExpiredError"
    THEN [res |-> Send(401, "TOKEN_EXPIRED"), user |-> NoUser]
    ELSE IF verifyEither(r.token) = "JsonWebTokenError"
    THEN [res |-> Send(401, "INVALID_TOKEN"), user |-> NoUser]
    ELSE IF normalizeTokenPayload(r.token) = NoUser
    THEN [res |-> Send(401, "UNAUTHORIZED"), user |-> NoUser]
    ELSE [res |-> [sent |-> <<>>, next |-> 1], user |-> normalizeTokenPayload(r.token)]

\* a route hands a request to authMiddleware
Arrive(r) ==
    /\ ~req.arrived
    /\ req' = r
    /\ res' = NoResponse
    /\ UNCHANGED <<dbVars, scoreVars, sessionVars, weakVars, editVars,
                   exams, nextExamID, examquestion, ecall>>

AuthMiddleware ==
    /\ req.arrived
    /\ res = NoResponse
    /\ \E h \in {Handled(req)} :
          /\ res' = h.res
          /\ req' = [req EXCEPT !.user = h.user]
    /\ UNCHANGED <<dbVars, scoreVars, sessionVars, weakVars, editVars,
                   exams, nextExamID, examquestion, ecall>>

\* the response has gone out, or the handlers after the middleware are done
Finish ==
    /\ res # NoResponse
    /\ req' = NoRequest
    /\ res' = NoResponse
    /\ UNCHANGED <<dbVars, scoreVars, sessionVars, weakVars, editVars,
                   exams, nextExamID, examquestion, ecall>>

NextAuth ==
    \/ \E r \in Requests : Arrive(r)
    \/ AuthMiddleware
    \/ Finish

SpecAuth == Init /\ [][NextAuth]_vars

\* ===================================================== properties checked
\* the choices of question q that are marked correct
CorrectSet(ch, q) == {c \in DOMAIN ch : ch[c].QuestionID = q /\ ch[c].IsCorrect}

\* the step changes the correct choice of q from one choice to another
Flips(q) ==
    \E a, b \in 1..MaxChoiceID :
        /\ a # b
        /\ CorrectSet(choice, q) = {a}
        /\ CorrectSet(choice', q) = {b}

\* every answer row of q carries the flag of the choice it selected
RowsMatchChoices(aa, ch, q) ==
    \A r \in aa :
        r.QuestionID = q =>
            r.IsCorrect = (r.ChoiceID \in DOMAIN ch /\ ch[r.ChoiceID].IsCorrect)

References(a, q) == \E r \in attemptanswer : r.AttemptID = a /\ r.QuestionID = q

Recalculated == call.op = "recalc" /\ call.status = "returned"

ListeningRows(a) == {r \in attemptanswer : r.AttemptID = a /\ r.QuestionID = 1}
ReadingRows(a) == {r \in attemptanswer : r.AttemptID = a /\ r.QuestionID = 2}
AllRows(a) == {r \in attemptanswer : r.AttemptID = a}
Correct(rows) == Cardinality({r \in rows : r.IsCorrect = TRUE})

Linear(rows) ==
    IF rows = {} THEN 0
    ELSE (2 * MaxScaled * Correct(rows) + Cardinality(rows)) \div (2 * Cardinality(rows))

\* the stored scores of a are those its current rows give
ScoresMatch(a) ==
    LET s == AttemptScores(attemptanswer, a, attempt[a].Type)
    IN /\ attempt[a].ScorePercent = s.percent
       /\ attempt[a].ScoreListening = s.listening
       /\ attempt[a].ScoreReading = s.reading

Stale(q) == {a \in AttemptIDs : References(a, q) /\ ~ScoresMatch(a)}

\* C1 (as claimed): a step that flips the correct choice of a question from one
\* choice to another leaves every answer row of that question with the flag of
\* the choice it selected (the recalculation that follows writes no answer row)
C1_FlipUpdatesEveryAnswer ==
    [][\A q \in QuestionIDs : Flips(q) => RowsMatchChoices(attemptanswer', choice', q)]_vars

\* C2: when recalculateAttemptScores(Q) has returned, every attempt with a row
\* for Q stores the skill scores given by all its current rows: the conversion
\* table for FULL_TEST, the linear formula for PRACTICE_BY_PART
C2_RecalculatedScoresFollowMode ==
    Recalculated =>
        \A a \in AttemptIDs :
            References(a, call.id) =>
                IF attempt[a].Type = "FULL_TEST"
                THEN /\ attempt[a].ScoreListening = convertListeningScore(Correct(ListeningRows(a)))
                     /\ attempt[a].ScoreReading = convertReadingScore(Correct(ReadingRows(a)))
                ELSE /\ attempt[a].ScoreListening = Linear(ListeningRows(a))
                     /\ attempt[a].ScoreReading = Linear(ReadingRows(a))

\* both regimes repaired by one recalculation of question 1 after its answer flipped
C2_Witness ==
    /\ Recalculated /\ call.id = 1
    /\ attempt[1].Type = "FULL_TEST" /\ attempt[1].ScoreListening = convertListeningScore(0)
    /\ attempt[2].Type = "PRACTICE_BY_PART" /\ attempt[2].ScoreListening = MaxScaled

C5_UnreferencedAttemptsUntouched ==
    [][call'.op = "recalc" =>
          \A a \in AttemptIDs :
              ~(\E r \in attemptanswer : r.AttemptID = a /\ r.QuestionID = call'.id) =>
                  /\ attempt'[a] = attempt[a]
                  /\ {r \in attemptanswer' : r.AttemptID = a} = AllRows(a)]_vars

\* question 2 recalculated: attempt 1 repaired, attempt 2 (no row for it) still stale
C5_Witness ==
    /\ Recalculated /\ call.id = 2
    /\ ~References(2, 2) /\ ~ScoresMatch(2)
    /\ References(1, 2) /\ attempt[1].ScorePercent = 0

\* C6: a step of a recalculation changes no field of an attempt other than
\* ScorePercent, ScoreListening and ScoreReading, and adds or removes no attempt
C6_OnlyScoreFieldsChange ==
    [][call'.op = "recalc" =>
          /\ DOMAIN attempt' = DOMAIN attempt
          /\ \A a \in AttemptIDs :
                /\ attempt'[a].SubmittedAt = attempt[a].SubmittedAt
                /\ attempt'[a].StartedAt = attempt[a].StartedAt
                /\ attempt'[a].Type = attempt[a].Type
                /\ attempt'[a].StudentProfileID = attempt[a].StudentProfileID
                /\ attempt'[a].ExamID = attempt[a].ExamID]_vars

\* a recalculation changed the scores of attempt 2 and its other fields are as graded
C6_Witness ==
    /\ Recalculated
    /\ attempt[2].ScorePercent = 100 /\ attempt[2].ScoreListening = MaxScaled
    /\ attempt[2].SubmittedAt = 3 /\ attempt[2].StartedAt = 2
    /\ attempt[2].Type = "PRACTICE_BY_PART"

\* the attempts after a complete recalculation for q run on (att, aa)
RecalcAll(q, att, aa) ==
    [a \in AttemptIDs |->
        IF a \in Affected(aa, q)
        THEN ApplyScores(att[a], AttemptScores(aa, a, att[a].Type))
        ELSE att[a]]

\* C7: the state a recalculation for Q commits is a fixed point of the
\* recalculation for Q (run twice, it gives what one run gives), a
\* recalculation that finds the scores of its attempts already matching their
\* rows changes no attempt, and it never writes an answer row
C7_RecalculationIdempotent ==
    [][(call.status = "running" /\ call'.status = "returned") =>
          /\ RecalcAll(call'.id, attempt', attemptanswer') = attempt'
          /\ (\A a \in AttemptIDs : References(a, call.id) => ScoresMatch(a))
                => attempt' = attempt
          /\ attemptanswer' = attemptanswer]_vars

\* a recalculation that did change a stored score
C7_Witness ==
    /\ Recalculated /\ call.id = 1
    /\ attempt[1].ScorePercent = 0 /\ attempt[1].ScoreListening = convertListeningScore(0)

C9_PracticeScoreOnEveryPath ==
    scoreIn.total > 0 =>
        /\ scoreOut.practice =
              (2 * MaxScaled * scoreIn.correct + scoreIn.total) \div (2 * scoreIn.total)
        /\ scoreOut.script =
              (2 * MaxScaled * scoreIn.correct + scoreIn.total) \div (2 * scoreIn.total)

\* C10: from one conversion to the next, a raw count that does not decrease
\* gives a listening score and a reading score that do not decrease
C10_ConversionMonotone ==
    [][scoreIn.correct <= scoreIn'.correct =>
          /\ scoreOut.listening <= scoreOut'.listening
          /\ scoreOut.reading <= scoreOut'.reading]_vars

\* the conversion applied to a full-test case at the top of the table
C10_Witness ==
    /\ scoreIn = [correct |-> FullTestTotal, total |-> FullTestTotal]
    /\ scoreOut.listening = MaxScaled /\ scoreOut.reading = MaxScaled

C12_ScoresInRange ==
    \A a \in AttemptIDs :
        /\ attempt[a].ScorePercent \in 0..100
        /\ attempt[a].ScoreListening \in 0..495
        /\ attempt[a].ScoreReading \in 0..495

\* a recalculation after an edit left attempt 2 at the top of both ranges and
\* attempt 1 at the bottom of the percentage
C12_Witness ==
    /\ Recalculated
    /\ attempt[2].ScorePercent = 100 /\ attempt[2].ScoreListening = 495
    /\ attempt[1].ScorePercent = 0 /\ attempt[1].ScoreReading = convertReadingScore(0)

\* C19 (as claimed): after any sequence of question updates every question has
\* exactly one choice marked correct
C19_ExactlyOneCorrectChoice ==
    \A q \in QuestionIDs : Cardinality(CorrectSet(choice, q)) = 1

\* the key and the selected choice of an answer row, without its flag
RowKey(r) == <<r.AttemptID, r.QuestionID, r.ChoiceID>>

\* the step leaves the correctness flag of choice c as it was
FlagKept(c) ==
    \/ c \notin DOMAIN choice
    \/ c \in DOMAIN choice' /\ choice'[c].IsCorrect = choice[c].IsCorrect

\* C20 (as claimed): a question update changes an answer row only in IsCorrect,
\* and only when the flag of the choice the row references changes; a row whose
\* choice keeps its flag is left as it was
C20_AnswerChangesOnlyWithChoice ==
    [][/\ {RowKey(r) : r \in attemptanswer'} = {RowKey(r) : r \in attemptanswer}
       /\ Cardinality(attemptanswer') = Cardinality(attemptanswer)
       /\ \A r \in attemptanswer : FlagKept(r.ChoiceID) => r \in attemptanswer']_vars

\* ---------------------------------------------- the attempt session
ValidationErrors == {"QuestionNotInExam", "ChoiceNotFound"}

\* both callers have finished a submission of the same attempt, which each
\* found in progress when it loaded it
Raced(c1, c2) ==
    /\ c1 # c2
    /\ sub[c1].pc = "done" /\ sub[c2].pc = "done"
    /\ sub[c1].attempt = sub[c2].attempt
    /\ sub[c1].open /\ sub[c2].open

\* C13: of two concurrent submissions of one attempt (neither rejected for time
\* or validation) exactly one succeeds and the other gets AlreadySubmitted,
\* whatever the interleaving; and the stored submission time, scores and answer
\* rows of the attempt are the ones the successful call computed
C13_SubmitAtMostOnce ==
    /\ \A c1, c2 \in Callers :
           (/\ Raced(c1, c2)
            /\ sub[c1].result \notin ValidationErrors \cup {"TimeExceeded"}
            /\ sub[c2].result \notin ValidationErrors \cup {"TimeExceeded"})
              => {sub[c1].result, sub[c2].result} = {"ok", "AlreadySubmitted"}
    /\ \A c \in Callers :
           (sub[c].pc = "done" /\ sub[c].result = "ok") =>
               /\ attempt[sub[c].attempt].SubmittedAt = sub[c].at
               /\ attempt[sub[c].attempt].ScorePercent = sub[c].scores.percent
               /\ attempt[sub[c].attempt].ScoreListening = sub[c].scores.listening
               /\ attempt[sub[c].attempt].ScoreReading = sub[c].scores.reading
               /\ {r \in attemptanswer : r.AttemptID = sub[c].attempt} = sub[c].rows

\* caller 1 won the race for attempt 3; caller 2, which had loaded the attempt
\* while it was in progress, lost it
C13_Witness ==
    /\ Raced(1, 2) /\ sub[1].attempt = 3
    /\ sub[1].result = "ok" /\ sub[2].result = "AlreadySubmitted"
    /\ attempt[3].SubmittedAt = sub[1].at

\* C14: the time check of a submission rejects it with TimeExceeded exactly when
\* now - startedAt exceeds the exam's limit, and the rejection writes nothing: no
\* answer row, no score, and submittedAt stays as it was (null)
C14_TimeExceededRejected ==
    [][\A c \in Callers :
          (sub[c].pc = "loaded" /\ sub'[c].pc # "loaded") =>
              /\ (sub'[c].result = "TimeExceeded")
                    <=> (now - attempt[sub[c].attempt].StartedAt > TimeExam)
              /\ sub'[c].result = "TimeExceeded" =>
                    /\ sub'[c].pc = "done"
                    /\ attempt' = attempt
                    /\ attemptanswer' = attemptanswer]_vars

\* a late submission of attempt 3 was rejected and the attempt is still in progress
C14_Witness ==
    /\ sub[1].pc = "done" /\ sub[1].result = "TimeExceeded" /\ sub[1].attempt = 3
    /\ attempt[3].SubmittedAt = NULL
    /\ {r \in attemptanswer : r.AttemptID = 3} = {}
    /\ now - attempt[3].StartedAt > TimeExam

\* an attempt in progress shows nothing of a grading
Ungraded(a) ==
    /\ {r \in attemptanswer : r.AttemptID = a} = {}
    /\ attempt[a].ScorePercent = NULL
    /\ attempt[a].ScoreListening = NULL
    /\ attempt[a].ScoreReading = NULL

\* C15: a submission that fails validation (QuestionNotInExam, ChoiceNotFound)
\* leaves the attempt table and the answer rows exactly as they were, and no
\* state shows an attempt graded in part: an attempt without submittedAt has no
\* answer row and no score
C15_GradingAllOrNothing ==
    /\ [](\A a \in DOMAIN attempt : attempt[a].SubmittedAt = NULL => Ungraded(a))
    /\ [][\A c \in Callers :
             (sub[c].pc = "grading" /\ sub'[c].result \in ValidationErrors) =>
                 /\ attempt' = attempt
                 /\ attemptanswer' = attemptanswer]_vars

\* a submission of attempt 3 failed on a choice of another question; the
\* attempt is still in progress and ungraded
C15_Witness ==
    /\ sub[2].pc = "done" /\ sub[2].result = "ChoiceNotFound" /\ sub[2].attempt = 3
    /\ attempt[3].SubmittedAt = NULL /\ Ungraded(3)

\* C16: across starts, submissions (accepted or rejected) and recalculations,
\* every attempt has submittedAt null or >= startedAt, keeps its startedAt, and
\* once its submittedAt is set it never changes again nor returns to null
C16_SubmittedAtSetOnce ==
    /\ [](\A a \in DOMAIN attempt :
             \/ attempt[a].SubmittedAt = NULL
             \/ attempt[a].SubmittedAt >= attempt[a].StartedAt)
    /\ [][\A a \in DOMAIN attempt :
             /\ a \in DOMAIN attempt'
             /\ attempt'[a].StartedAt = attempt[a].StartedAt
             /\ attempt[a].SubmittedAt # NULL =>
                   attempt'[a].SubmittedAt = attempt[a].SubmittedAt]_vars

\* attempt 4 was started and submitted a minute later, a late submission of
\* attempt 3 was rejected, and a recalculation has run since
C16_Witness ==
    /\ 4 \in DOMAIN attempt /\ attempt[4].SubmittedAt > attempt[4].StartedAt
    /\ attempt[3].SubmittedAt = NULL
    /\ sub[1].result = "TimeExceeded" /\ sub[1].attempt = 3
    /\ Recalculated /\ call.id = 1

\* the student's attempts without a submission time
InProgress(student) ==
    {a \in DOMAIN attempt :
        attempt[a].StudentProfileID = student /\ attempt[a].SubmittedAt = NULL}

\* C18: a step that adds an attempt leaves every earlier attempt (in progress
\* or not) and every answer row as it was; and a getActiveAttempt answers with
\* an attempt in progress of that student that none of the student's other
\* attempts in progress was started after, or with none when the student has
\* none, and changes no table
C18_StartKeepsActiveAttempts ==
    [][/\ DOMAIN attempt' # DOMAIN attempt =>
             /\ \A a \in DOMAIN attempt : a \in DOMAIN attempt' /\ attempt'[a] = attempt[a]
             /\ attemptanswer' = attemptanswer
       /\ reply' # reply =>
             /\ reply'.op = "getActiveAttempt"
             /\ attempt' = attempt /\ attemptanswer' = attemptanswer /\ choice' = choice
             /\ IF reply'.attempt = NULL
                THEN InProgress(reply'.student) = {}
                ELSE /\ reply'.attempt \in InProgress(reply'.student)
                     /\ \A b \in InProgress(reply'.student) :
                           attempt[b].StartedAt <= attempt[reply'.attempt].StartedAt]_vars

\* student 1 started attempt 4 while attempt 3 was in progress: both are still
\* in progress and the lookup answered with the later one
C18_Witness ==
    /\ InProgress(1) = {3, 4}
    /\ attempt[4].StartedAt > attempt[3].StartedAt
    /\ reply = [op |-> "getActiveAttempt", student |-> 1, attempt |-> 4]

\* the groups the analyzer reported
Reported == {weakOut.areas[i] : i \in DOMAIN weakOut.areas}

\* C17: the analyzer reports exactly the groups with at least one question whose
\* accuracy correct/total is strictly below 60%, each once, in ascending order
\* of accuracy; of groups at 40%, 70% and 90% it reports only the one at 40%;
\* and running it changes no stored attempt or answer row
C17_WeakAreasBelowThreshold ==
    /\ [](weakOut.done =>
             /\ Reported = {g \in GroupIDs :
                               /\ weakIn[g].total # 0
                               /\ 100 * weakIn[g].correct < 60 * weakIn[g].total}
             /\ Len(weakOut.areas) = Cardinality(Reported)
             /\ \A i, j \in DOMAIN weakOut.areas :
                   i < j =>
                      weakIn[weakOut.areas[i]].correct * weakIn[weakOut.areas[j]].total
                         <= weakIn[weakOut.areas[j]].correct * weakIn[weakOut.areas[i]].total
             /\ (/\ weakIn[1] = [correct |-> 4, total |-> 10]
                 /\ weakIn[2] = [correct |-> 7, total |-> 10]
                 /\ weakIn[3] = [correct |-> 9, total |-> 10]) => weakOut.areas = <<1>>)
    /\ [][weakOut' # weakOut => attempt' = attempt /\ attemptanswer' = attemptanswer]_vars

\* a group at 50%, a group at 20% and a group without questions: the first
\* two are reported, worst first, and the empty group is not
C17_Witness ==
    /\ weakOut.done
    /\ weakIn[1] = [correct |-> 5, total |-> 10]
    /\ weakIn[2] = [correct |-> 1, total |-> 5]
    /\ weakIn[3] = [correct |-> 0, total |-> 0]
    /\ weakOut.areas = <<2, 1>>

\* ---------------------------------------------- the update transaction
\* C24: an update that fails at any of its steps (question text, media, a choice
\* update or insert, the answer-row update, the deletions) leaves every
\* question, media, choice and answer row as it was before the call
C24_UpdateAtomic ==
    [][(call'.op = "update" /\ call'.status = "failed") =>
          /\ question' = question
          /\ choice' = choice
          /\ attemptanswer' = attemptanswer]_vars

\* an update of question 1 naming choice 1 failed after its transaction had
\* written, and every row is as it was at the start
C24_Witness ==
    /\ call = [op |-> "update", id |-> 1, status |-> "failed"]
    /\ upd.wrote /\ upd.ids = {1}
    /\ question = [q \in QuestionIDs |-> Untouched]
    /\ choice = InitChoice
    /\ attemptanswer = {AnswerRow(1, 1, 1), AnswerRow(1, 2, NULL), AnswerRow(2, 1, 2)}

\* C26: an update that commits deletes a stored choice of its question that its
\* payload does not name exactly when no answer row references the choice
\* (without choicesData it deletes nothing); and in every state every answer
\* row with a choice references a stored choice
C26_AbsentDeletedIffUnreferenced ==
    /\ [](\A r \in attemptanswer : r.ChoiceID # NULL => r.ChoiceID \in DOMAIN choice)
    /\ [][(call'.op = "update" /\ call'.status = "returned") =>
             IF upd'.provided
             THEN \A c \in DOMAIN choice :
                     (choice[c].QuestionID = call'.id /\ c \notin upd'.ids) =>
                        (c \notin DOMAIN choice'
                            <=> ~(\E r \in attemptanswer : r.ChoiceID = c))
             ELSE DOMAIN choice' = DOMAIN choice]_vars

\* an update of question 1 with an empty choicesData has committed: choice 4,
\* added by an earlier update and never chosen, is gone, and choices 1 and 2,
\* which answer rows reference, are kept
C26_Witness ==
    /\ call = [op |-> "update", id |-> 1, status |-> "returned"]
    /\ upd.provided /\ upd.ids = {}
    /\ nextChoiceID = 5
    /\ DOMAIN choice = {1, 2, 3}
    /\ \E r \in attemptanswer : r.ChoiceID = 1
    /\ \E r \in attemptanswer : r.ChoiceID = 2

\* C30 (as claimed): an update of question id changes no choice of another
\* question, and whenever the flag of a choice changes, the answer rows that
\* reference the choice carry the new flag
C30_OnlyOwnChoicesChange ==
    [][call'.op = "update" =>
          /\ \A c \in DOMAIN choice :
                choice[c].QuestionID # call'.id =>
                    c \in DOMAIN choice' /\ choice'[c] = choice[c]
          /\ \A c \in DOMAIN choice \cap DOMAIN choice' :
                choice'[c].IsCorrect # choice[c].IsCorrect =>
                    \A r \in attemptanswer' :
                        r.ChoiceID = c => r.IsCorrect = choice'[c].IsCorrect]_vars

\* ------------------------------------------------------------ authentication
\* the token passes jwt.verify: a JWT of an accepted algorithm, signed with
\* JWT_SECRET, not expired
Authentic(t) ==
    t.form = "jwt" /\ t.alg \in {"HS256", "HS512"} /\ t.signed /\ ~t.expired

\* the payload has a role, an email or sub, and a userId or id
Complete(t) ==
    t.role # "" /\ (t.email # "" \/ t.sub # "") /\ (t.userId # 0 \/ t.id # 0)

\* C25: once authMiddleware has handled a request, either it has called next()
\* once and sent nothing, the request carried a Bearer token that is authentic
\* and complete, and req.user holds the role, email (or sub) and userId (or id)
\* of the token; or it has sent exactly one response, 401 or 500 (500 only with
\* JWT_SECRET missing), has not called next() and has attached no user
C25_NextOrOneError ==
    res # NoResponse =>
        \/ /\ res.next = 1 /\ res.sent = <<>>
           /\ req.header = "Bearer" /\ req.jwtSecret
           /\ Authentic(req.token) /\ Complete(req.token)
           /\ req.user.role = req.token.role
           /\ req.user.email = IF req.token.email # "" THEN req.token.email
                               ELSE req.token.sub
           /\ req.user.userId = IF req.token.userId # 0 THEN req.token.userId
                                ELSE req.token.id
        \/ /\ res.next = 0 /\ Len(res.sent) = 1
           /\ res.sent[1].status \in {401, 500}
           /\ res.sent[1].status = 500 => ~req.jwtSecret
           /\ req.user = NoUser

\* an HS512 token of a teacher with sub and id (the second token format) has
\* passed: next() was called and the user carries the id as teacherProfileId
C25_Witness ==
    /\ res = [sent |-> <<>>, next |-> 1]
    /\ req.token.alg = "HS512" /\ req.token.email = "" /\ req.token.userId = 0
    /\ req.user = [userId |-> 1, email |-> "s", role |-> "TEACHER",
                   studentProfileId |-> 0, teacherProfileId |-> 1]

\* ---------------------------------------------- exam management
\* C21 (as claimed): a deleteExam call for an exam with at least one attempt
\* fails, and the exam, its questions, its attempts and their answer rows all
\* remain
C21_DeleteKeepsTakenExam ==
    [][(ecall'.op = "deleteExam" /\ AttemptsOf(ecall'.exam) # {}) =>
          /\ ecall'.result # "ok"
          /\ exams' = exams
          /\ examquestion' = examquestion
          /\ attempt' = attempt
          /\ attemptanswer' = attemptanswer]_vars

\* C22 (as claimed): an updateExam call for a stored exam is refused for lack of
\* permission only when the caller is neither the exam's creator nor an admin
\* (so an admin who is not the creator succeeds with valid data), and the call
\* of a non-admin who is not the creator is refused and leaves the exam as it was
C22_CreatorOrAdminUpdates ==
    [][(ecall'.op = "updateExam" /\ ecall'.exam \in DOMAIN exams) =>
          IF Role(ecall'.user) = "ADMIN" \/ exams[ecall'.exam].UserID = ecall'.user
          THEN ecall'.result # "no permission"
          ELSE ecall'.result = "no permission" /\ exams' = exams]_vars

\* C23 (as claimed): a createExam call that fails leaves no exam row and no
\* exam-question row behind
C23_CreateExamAtomic ==
    [][(ecall'.op = "createExam" /\ ecall'.result # "ok") =>
          /\ exams' = exams
          /\ examquestion' = examquestion]_vars

C28_EmptySkillScoresZero ==
    \A a \in DOMAIN attempt :
        (attempt[a].Type = "PRACTICE_BY_PART" /\ attempt[a].SubmittedAt # NULL) =>
            /\ SkillRows(attemptanswer, a, "LISTENING") = {} => attempt[a].ScoreListening = 0
            /\ SkillRows(attemptanswer, a, "READING") = {} => attempt[a].ScoreReading = 0

\* a practice attempt on part 1 alone was started, graded with its one listening
\* question right, and a recalculation for that question has committed: reading,
\* which has no rows, scores 0 next to a listening score of 495
C28_Witness ==
    /\ call = [op |-> "recalc", id |-> 1, status |-> "returned"]
    /\ \E a \in (DOMAIN attempt) \ AttemptIDs :
          /\ attempt[a].Type = "PRACTICE_BY_PART"
          /\ attempt[a].SubmittedAt # NULL
          /\ SkillRows(attemptanswer, a, "READING") = {}
          /\ SkillRows(attemptanswer, a, "LISTENING") # {}
          /\ attempt[a].ScoreListening = MaxScaled
          /\ attempt[a].ScoreReading = 0

\* ------------------------------------------------------ unanswered questions
\* the rows of aa that record an unanswered question
Unanswered(aa) == {r \in aa : r.ChoiceID = NULL}

\* the scores of attempt a counted from the rows of aa, rows without a choice
\* included in the totals
CountedScores(aa, a, type) ==
    LET all == {r \in aa : r.AttemptID = a}
        right == {r \in all : r.IsCorrect /\ r.ChoiceID # NULL}
        l == {r \in all : Skill(r.QuestionID) = "LISTENING"}
        rd == {r \in all : Skill(r.QuestionID) = "READING"}
    IN [percent |-> ScorePercentOf(Cardinality(right), Cardinality(all)),
        skills |-> SkillScores(type, Cardinality(right \cap l), Cardinality(l),
                               Cardinality(right \cap rd), Cardinality(rd))]

\* C29: a row without a choice is never correct; no step changes or removes such
\* a row; grading leaves one row for every question of the attempt's pool; and
\* whenever the scores of an attempt are written (by grading or by a
\* recalculation) they are the scores counted over all its rows, the rows
\* without a choice among the totals and not among the correct ones
C29_UnansweredStaysIncorrect ==
    /\ [](\A r \in Unanswered(attemptanswer) : ~r.IsCorrect)
    /\ [][/\ Unanswered(attemptanswer) \subseteq attemptanswer'
          /\ \A a \in DOMAIN attempt :
                attempt'[a] # attempt[a] =>
                    /\ attempt[a].SubmittedAt = NULL =>
                          {r.QuestionID : r \in RowsOf(attemptanswer', a)} = Pool(a)
                    /\ \E s \in {CountedScores(attemptanswer', a, attempt[a].Type)} :
                          /\ attempt'[a].ScorePercent = s.percent
                          /\ attempt'[a].ScoreListening = s.skills.listening
                          /\ attempt'[a].ScoreReading = s.skills.reading]_vars

\* attempt 3, a practice on parts 1 and 5, was submitted with question 1 right
\* and question 2 unanswered; choice 3 of question 2 was then set to incorrect
\* and a recalculation for question 2 has committed: the row without a choice is
\* still there and incorrect, and the attempt scores 1 of 2 overall, 1 of 1 in
\* listening and 0 of 1 in reading
C29_Witness ==
    /\ call = [op |-> "recalc", id |-> 2, status |-> "returned"]
    /\ 3 \in DOMAIN choice /\ ~choice[3].IsCorrect
    /\ attempt[3].Type = "PRACTICE_BY_PART"
    /\ [AttemptID |-> 3, QuestionID |-> 2, ChoiceID |-> NULL, IsCorrect |-> FALSE]
           \in attemptanswer
    /\ [AttemptID |-> 3, QuestionID |-> 1, ChoiceID |-> 1, IsCorrect |-> TRUE]
           \in attemptanswer
    /\ attempt[3].ScorePercent = 50
    /\ attempt[3].ScoreListening = MaxScaled
    /\ attempt[3].ScoreReading = 0

====
